---- MODULE Spec2Model ----
(***************************************************************************)
(* Provider synchronisation and webhook reconciliation of the WhatsApp     *)
(* template service: the Celery jobs of wa_templates/tasks.py, the Gupshup *)
(* provider client, the webhook handler and the request handlers that      *)
(* enqueue the jobs, over the WhatsAppTemplate table.                      *)
(***************************************************************************)
EXTENDS Integers, Sequences, FiniteSets, TLC

VARIABLES
    rows,          \* WhatsAppTemplate table: primary key -> stored row
    nextId,        \* next primary key the table hands out
    providerApps,  \* ProviderAppInstance table: app_id -> [organisation, has_token]
    jobs,          \* Celery task instances, in the order they were enqueued
    handler,       \* perform_destroy between its delay() and its instance.save()
    now,           \* wall clock read by datetime.now()
    quota,         \* task instances that may still be enqueued
    client         \* a GupshupProvider method call, followed step by step

vars == <<rows, nextId, providerApps, jobs, handler, now, quota, client>>

----------------------------------------------------------------------------
(* Bounds of the model *)

MaxJobs == 1          \* task instances enqueued in one behaviour of Spec
MaxEvents == 2        \* webhook deliveries in one behaviour of SpecWebhook
MaxSyncs == 2         \* sync requests in one behaviour of SpecSync
MaxLocates == 1       \* webhook deliveries in one behaviour of SpecLocate
MaxRaceJobs == 2      \* task instances in one behaviour of SpecRace
MaxResyncJobs == 2    \* task instances in one behaviour of SpecResync
MaxTemplateId == 2    \* primary keys the table can hand out
MaxNow == 1           \* clock ticks

(* Program constants *)

MaxRetries == 3       \* @shared_task(bind=True, max_retries=3)

TemplateIds == 1..MaxTemplateId
None == "<None>"      \* Python None

STATUS_CHOICES ==
    {"draft", "pending", "approved", "rejected", "failed", "paused",
     "deleted", "disabled", "in_appeal"}

APPLY_TEMPLATE == "apply_template"
UPDATE_TEMPLATE == "update_template"
DELETE_TEMPLATE == "delete_template"

OrgA == "org_A"       \* organisation of the requesting tenant (JWT claim)
OrgB == "org_B"
AppP == "app_P"       \* app_id of the request path

----------------------------------------------------------------------------
(* WhatsAppTemplate rows *)

\* Python's str.lower() / str.upper() on the strings the model uses.
Lower(s) ==
    CASE s = "APPROVED" -> "approved"
      [] s = "PENDING" -> "pending"
      [] s = "REJECTED" -> "rejected"
      [] s = "DELETED" -> "deleted"
      [] s = "BOGUS" -> "bogus"
      [] OTHER -> s

Upper(s) ==
    CASE s = "utility" -> "UTILITY"
      [] s = "marketing" -> "MARKETING"
      [] OTHER -> s

\* Variant of generate_hash that also digests the webhook audit map.
generate_hash_with_audit(t) ==
    [appId |-> t.app,
     category |-> t.category,
     elementName |-> t.elementName,
     id |-> t.provider_template_id,
     languageCode |-> t.languageCode,
     oldCategory |-> t.oldCategory,
     quality |-> t.quality,
     status |-> t.status,
     webhookMeta |-> t.webhookMeta]

\* WhatsAppTemplate.generate_hash: the digest of the provider-relevant fields,
\* taken as collision-free (the digest is the tuple of the hashed values).
generate_hash(t) ==
    [appId |-> t.app,
     category |-> t.category,
     elementName |-> t.elementName,
     id |-> t.provider_template_id,
     languageCode |-> t.languageCode,
     oldCategory |-> t.oldCategory,
     quality |-> t.quality,
     status |-> t.status]

\* The instance as WhatsAppTemplate.save leaves it: hash recomputed.
Hashed(t) == [t EXCEPT !.hash = generate_hash(t)]

\* WhatsAppTemplate.save on a loaded instance: UPDATE of every column by
\* primary key, and an INSERT when no row has that key any more.
save(table, t) == (t.id :> Hashed(t)) @@ table

\* Model.delete: the row is removed.
delete(table, t) == [i \in (DOMAIN table) \ {t.id} |-> table[i]]

\* A template as perform_create stores it: status draft, defaults elsewhere.
NewTemplate(id, name, pid, st) ==
    Hashed([id |-> id, org |-> OrgA, app |-> AppP,
            elementName |-> name, languageCode |-> "en",
            status |-> st, provider_template_id |-> pid,
            category |-> "MARKETING", oldCategory |-> None, quality |-> None,
            isDeleted |-> "none",
            errorMessageMeta |-> <<>>, webhookMeta |-> <<>>,
            hash |-> None])

\* WhatsAppTemplate.update_error_meta(key, value): the instance after the
\* assignment; the method's closing self.save() is the save(...) the jobs
\* apply to the result.
update_error_meta(t, key, value) ==
    [t EXCEPT !.errorMessageMeta =
        (key :> [payload |-> value, ts |-> now]) @@ t.errorMessageMeta]

\* WhatsAppTemplate.mark_as_deleted: the instance after the assignment; the
\* method's self.save() is the save(...) ApplyEvent applies to the result.
mark_as_deleted(t) == [t EXCEPT !.isDeleted = "Deleted"]

\* Variant of _update_and_log_webhook_event that logs the event without
\* assigning the primary field.
update_and_log_audit_only(t, event_type, main_field_value, event_payload) ==
    [t EXCEPT !.webhookMeta =
        (event_type :> (("ts" :> now) @@ event_payload)) @@ t.webhookMeta]

\* WhatsAppTemplate._update_and_log_webhook_event: the instance after the
\* assignments; the method's closing self.save() is the save(...) ApplyEvent
\* applies to the result.  The event type None is the key "<None>".
\* Variant of _update_and_log_webhook_event that keeps the entry it replaces
\* under a key of its own.
update_and_log_keeping_previous(t, event_type, main_field_value, event_payload) ==
    LET t1 == CASE event_type = "status-update" ->
                       [t EXCEPT !.status = main_field_value]
                [] event_type = "category-update" ->
                       [t EXCEPT !.category = main_field_value]
                [] event_type = "quality-update" ->
                       [t EXCEPT !.quality = main_field_value]
                [] OTHER -> t
        stamped == ("ts" :> now) @@ event_payload
        kept == IF event_type \in DOMAIN t.webhookMeta
                THEN ("previous" :> t.webhookMeta[event_type]) ELSE <<>>
    IN [t1 EXCEPT !.webhookMeta = (event_type :> stamped) @@ kept @@ t.webhookMeta]

\* Variant of _update_and_log_webhook_event that merges the new payload into
\* the entry stored for the event type.
update_and_log_merging(t, event_type, main_field_value, event_payload) ==
    LET t1 == CASE event_type = "status-update" ->
                       [t EXCEPT !.status = main_field_value]
                [] event_type = "category-update" ->
                       [t EXCEPT !.category = main_field_value]
                [] event_type = "quality-update" ->
                       [t EXCEPT !.quality = main_field_value]
                [] OTHER -> t
        previous == IF event_type \in DOMAIN t.webhookMeta
                    THEN t.webhookMeta[event_type] ELSE <<>>
        stamped == ("ts" :> now) @@ event_payload @@ previous
    IN [t1 EXCEPT !.webhookMeta = (event_type :> stamped) @@ t.webhookMeta]

_update_and_log_webhook_event(t, event_type, main_field_value, event_payload) ==
    LET t1 == CASE event_type = "status-update" ->
                       [t EXCEPT !.status = main_field_value]
                [] event_type = "category-update" ->
                       [t EXCEPT !.category = main_field_value]
                [] event_type = "quality-update" ->
                       [t EXCEPT !.quality = main_field_value]
                [] OTHER -> t
        stamped == ("ts" :> now) @@ event_payload
    IN [t1 EXCEPT !.webhookMeta = (event_type :> stamped) @@ t.webhookMeta]

----------------------------------------------------------------------------
(* ProviderAppInstance lookups *)

\* ProviderAppInstance.objects.get(organisation_id=org_id, app_id=app_id)
\* finds a row (otherwise it raises ProviderAppInstance.DoesNotExist).
ProviderInstanceExists(org_id, app_id) ==
    /\ app_id \in DOMAIN providerApps
    /\ providerApps[app_id].organisation = org_id

\* ProviderAppInstance.get_app_token: None without a stored secret or token.
get_app_token(app_id) ==
    IF providerApps[app_id].has_token THEN "token" ELSE None

----------------------------------------------------------------------------
(* Celery task instances *)

NoT == [id |-> 0]            \* no template instance loaded
NoEvent == [type |-> "none"]

\* Task.delay(...): a task instance waiting for a worker.
NewJob(kind, template_id, event) ==
    [kind |-> kind, template_id |-> template_id,
     app_id |-> AppP, org_id |-> OrgA, event |-> event,
     pc |-> "queued", retries |-> 0, state |-> "PENDING", t |-> NoT,
     calls |-> 0,            \* provider method invocations so far
     results |-> {},         \* kinds of outcome of the provider-call phase so far
     accepted |-> FALSE,     \* the provider answered a call with success
     fetched |-> <<>>,       \* the template list the last get_templates received
     written |-> 0,          \* rows the committed bulk_update/bulk_create wrote
     applied |-> None,       \* handle_gupshup_template_webhook returned "True"/"False"
     failure_reported |-> FALSE]   \* the instance's state has been FAILURE

JobIds == 1..Len(jobs)

Enqueue(job) ==
    /\ quota > 0
    /\ quota' = quota - 1
    /\ jobs' = Append(jobs, job)

\* The task raised outside its retry handler, or update_state(FAILURE) was
\* followed by an exception that ends it: Celery stores FAILURE.
Failed(job) ==
    [job EXCEPT !.pc = "done", !.state = "FAILURE", !.t = NoT,
                !.failure_reported = TRUE]

\* The task function returned: Celery stores SUCCESS.
Succeeded(job) == [job EXCEPT !.pc = "done", !.state = "SUCCESS", !.t = NoT]

\* Variant of RetryOrFail whose retry test is off by one.
RetryOrFail_off_by_one(job) ==
    IF job.retries <= MaxRetries
    THEN [job EXCEPT !.pc = "queued", !.state = "RETRY",
                     !.retries = job.retries + 1, !.t = NoT]
    ELSE Failed(job)

\* `raise self.retry(exc=e, countdown=2**self.request.retries)` in the
\* `except Exception as e` handler.  Task.retry re-enqueues the task (state
\* RETRY) while request.retries < max_retries and re-raises exc once the
\* retries are used up: the task then ends in FAILURE with exc, and since exc
\* is no MaxRetriesExceededError the inner handler is not entered.
RetryOrFail(job) ==
    IF job.retries < MaxRetries
    THEN [job EXCEPT !.pc = "queued", !.state = "RETRY",
                     !.retries = job.retries + 1, !.t = NoT]
    ELSE Failed(job)

\* One more provider method invocation, with the kind of its outcome.  On a
\* failure result the task runs self.update_state(state='FAILURE', ...)
\* before it raises the ValueError that its retry handler catches.
Called(job, kind, wasAccepted) ==
    [job EXCEPT !.calls = job.calls + 1,
                !.results = job.results \cup {kind},
                !.accepted = job.accepted \/ wasAccepted,
                !.failure_reported = @ \/ (kind = "fail")]

----------------------------------------------------------------------------
(* GupshupProvider: what the provider answers is an input of the call. *)

\* _make_request: the provider accepted (2xx, JSON status success), answered
\* with a rejection (JSON status failed, or HTTP 4xx/5xx), or the request
\* failed at network level (status_code 0).
HttpOutcomes == {"accepted", "rejected", "network"}

ProviderTemplateId == "abc123"     \* template.id of an accepting response

\* The message of a failed request (r.text of the rejection, or the text of
\* the network error); the model does not tell the messages apart.
ErrorText(http) == "provider error"

\* GupshupProvider.save_template_data_from_provider(r, template): its first
\* statement evaluates r.json() on the decoded response, a dict, which raises
\* AttributeError before any field is copied.
save_template_data_from_provider(r, t) == [raised |-> TRUE, t |-> t]

\* GupshupProvider.submit_template: the result handed to the task, the
\* instance afterwards and whether the method saved it.
submit_template(t, http) ==
    IF http = "accepted"
    THEN LET s == save_template_data_from_provider(
                      [id |-> ProviderTemplateId, status |-> "PENDING"], t)
         IN IF s.raised
            THEN [ok |-> FALSE, response |-> "Internal error",
                  t |-> s.t, saved |-> FALSE]
            ELSE [ok |-> TRUE, response |-> "template", t |-> s.t, saved |-> TRUE]
    ELSE [ok |-> FALSE, response |-> ErrorText(http), t |-> t, saved |-> TRUE]

\* GupshupProvider.update_template: on an accepting response it calls
\* self.save_template_provider, which the class does not define
\* (AttributeError, caught by the method's own handler).
update_template(t, http) ==
    IF http = "accepted"
    THEN [ok |-> FALSE, response |-> "Internal error", t |-> t, saved |-> FALSE]
    ELSE [ok |-> FALSE, response |-> ErrorText(http), t |-> t, saved |-> TRUE]

\* GupshupProvider.delete_template
delete_template(t, http) ==
    IF http = "accepted"
    THEN [ok |-> TRUE, response |-> None]
    ELSE [ok |-> FALSE, response |-> ErrorText(http)]

----------------------------------------------------------------------------
(* Sync: GupshupProvider.get_templates and sync_templates *)

\* A record of the provider's template list.
RemoteRecord(name, id, st, cat) ==
    [appId |-> AppP, category |-> cat, elementName |-> name, id |-> id,
     languageCode |-> "en", oldCategory |-> None, quality |-> None,
     status |-> st]

\* A record with the keys of the provider's template object as the
\* repository's tests quote it (TEMPLATE_SUBMISSION_SUCCESS_RESPONSE): among
\* the modelled keys it carries 'vertical' and no 'oldCategory'.
SampleRecord(name, id, st, cat) ==
    [appId |-> AppP, category |-> cat, elementName |-> name, id |-> id,
     languageCode |-> "en", quality |-> None, status |-> st,
     vertical |-> "Ticket update"]

\* The local template as a record with the keys of the tests' sample.
SampleLists ==
    { <<SampleRecord("otp_1", ProviderTemplateId, "PENDING", "MARKETING")>> }

\* The template lists the provider answers get_templates with: a template
\* the tenant has locally, one it has not, the local template's name in
\* another language, and a list that repeats a record.
RemoteLists ==
    { <<RemoteRecord("otp_1", ProviderTemplateId, "APPROVED", "UTILITY")>>,
      <<RemoteRecord("promo", "xyz789", "PENDING", "MARKETING")>>,
      <<[RemoteRecord("otp_1", "es456", "APPROVED", "UTILITY")
            EXCEPT !.languageCode = "es"]>>,
      <<RemoteRecord("otp_1", ProviderTemplateId, "APPROVED", "UTILITY"),
        RemoteRecord("promo", "xyz789", "PENDING", "MARKETING"),
        RemoteRecord("promo", "xyz789", "PENDING", "MARKETING")>> }

\* hashlib.md5(json.dumps(tpl, sort_keys=True)) of a remote record.
tpl_hash(tpl) == tpl

SetMax(S) == CHOOSE m \in S : \A x \in S : x <= m

\* Variant of FirstByElementName without the filter on the name.
FirstByElementName_unfiltered(table, name) ==
    IF DOMAIN table = {} THEN NoT ELSE table[SetMax(DOMAIN table)]

\* WhatsAppTemplate.objects.filter(elementName=element_name).first(), under
\* Meta.ordering = ['-created_at']: the newest row of that name, or None.
FirstByElementName(table, name) ==
    LET M == {i \in DOMAIN table : table[i].elementName = name}
    IN IF M = {} THEN NoT ELSE table[SetMax(M)]

\* tpl.get(key): None for a key the record does not carry.
TplGet(tpl, key) == IF key \in DOMAIN tpl THEN tpl[key] ELSE None

\* GupshupProvider.sync_templates(tpl, tpl_hash, template_obj)
sync_templates(tpl, h, template_obj, org_id) ==
    IF template_obj # NoT
    THEN IF template_obj.hash # h
         THEN [template_obj EXCEPT
                  !.hash = h, !.app = tpl.appId, !.org = org_id,
                  !.category = tpl.category, !.elementName = tpl.elementName,
                  !.provider_template_id = tpl.id,
                  !.languageCode = tpl.languageCode,
                  !.oldCategory = TplGet(tpl, "oldCategory"),
                  !.quality = tpl.quality,
                  !.status = tpl.status]
         ELSE template_obj
    ELSE [id |-> 0, org |-> org_id, app |-> tpl.appId,
          elementName |-> tpl.elementName, languageCode |-> tpl.languageCode,
          status |-> tpl.status, provider_template_id |-> tpl.id,
          category |-> tpl.category, oldCategory |-> TplGet(tpl, "oldCategory"),
          quality |-> tpl.quality, isDeleted |-> "none",
          errorMessageMeta |-> <<>>, webhookMeta |-> <<>>, hash |-> h]

\* GupshupProvider.get_templates on an accepting response: templates_to_update.
get_templates(table, remote, org_id) ==
    [i \in 1..Len(remote) |->
        sync_templates(remote[i], tpl_hash(remote[i]),
                       FirstByElementName(table, remote[i].elementName), org_id)]

\* WhatsAppTemplate.objects.bulk_update(objs with pk, fields=['category',
\* 'templateType', 'status', 'modifiedOn', 'meta', 'containerMeta', 'hash'])
RECURSIVE bulk_update(_, _)
bulk_update(table, objs) ==
    IF objs = <<>> THEN table
    ELSE LET o == Head(objs)
             t1 == IF o.id # 0 /\ o.id \in DOMAIN table
                   THEN [table EXCEPT ![o.id].category = o.category,
                                      ![o.id].status = o.status,
                                      ![o.id].hash = o.hash]
                   ELSE table
         IN bulk_update(t1, Tail(objs))

\* unique_together (org_id, elementName, languageCode, provider_app_instance_app_id)
SameIdentity(a, b) ==
    /\ a.org = b.org /\ a.app = b.app
    /\ a.elementName = b.elementName /\ a.languageCode = b.languageCode

\* WhatsAppTemplate.objects.bulk_create(objs without pk): the table, the next
\* primary key and whether the INSERT raised IntegrityError.
RECURSIVE bulk_create(_, _, _)
bulk_create(table, next, objs) ==
    IF objs = <<>> THEN [table |-> table, next |-> next, raised |-> FALSE]
    ELSE LET o == Head(objs)
         IN IF o.id # 0 THEN bulk_create(table, next, Tail(objs))
            ELSE IF \E i \in DOMAIN table : SameIdentity(table[i], o)
            THEN [table |-> table, next |-> next, raised |-> TRUE]
            ELSE bulk_create((next :> [o EXCEPT !.id = next]) @@ table,
                             next + 1, Tail(objs))

NewObjects(objs) == {i \in 1..Len(objs) : objs[i].id = 0}

\* The primary keys handed to bulk_update: [t for t in templates_to_update
\* if t.pk].
UpdatedKeys(objs) == {objs[i].id : i \in 1..Len(objs)} \ {0}

\* Variant of atomic that keeps the writes made before the failing one.
atomic_without_rollback(table, next, objs) ==
    bulk_create(bulk_update(table, objs), next, objs)

\* `with transaction.atomic():` around bulk_update and bulk_create: when a
\* write raises, the block's writes are rolled back and the exception
\* propagates.
atomic(table, next, objs) ==
    LET created == bulk_create(bulk_update(table, objs), next, objs)
    IN IF created.raised
       THEN [table |-> table, next |-> next, raised |-> TRUE]
       ELSE created

----------------------------------------------------------------------------
(* Webhook: handle_gupshup_template_webhook *)

\* dict.get(key) and dict.get(key, default)
GetOr(d, k, default) == IF k \in DOMAIN d THEN d[k] ELSE default
Get(d, k) == GetOr(d, k, None)
Truthy(v) == v # None /\ v # ""

\* The events the provider sends (payload of a template-event).
WebhookEvents ==
    { [id |-> ProviderTemplateId, type |-> "status-update", status |-> "APPROVED",
       description |-> "ok"],
      [id |-> ProviderTemplateId, type |-> "status-update", status |-> "deleted"],
      [id |-> ProviderTemplateId, type |-> "status-update", status |-> "bogus"],
      [id |-> ProviderTemplateId, type |-> "status-update"],
      [elementName |-> "otp_1", languageCode |-> "en", type |-> None,
       status |-> "rejected"],
      [id |-> ProviderTemplateId, type |-> "category-update",
       category |-> [new |-> "utility", old |-> "marketing"]],
      [id |-> ProviderTemplateId, type |-> "quality-update", quality |-> "HIGH"],
      [id |-> ProviderTemplateId, type |-> "account-event"],
      [id |-> "unknown", type |-> "status-update", status |-> "approved"] }

\* Variant of LocateTemplate that tries (elementName, languageCode) first.
LocateTemplate_by_name_first(table, payload) ==
    LET template_id == Get(payload, "id")
        byId == {i \in DOMAIN table : table[i].provider_template_id = template_id}
        byName == {i \in DOMAIN table :
                      /\ table[i].elementName = Get(payload, "elementName")
                      /\ table[i].languageCode = Get(payload, "languageCode")}
    IN IF byName # {}
       THEN [found |-> "yes", t |-> table[CHOOSE i \in byName : TRUE]]
       ELSE IF Truthy(template_id) /\ byId # {}
       THEN [found |-> "yes", t |-> table[CHOOSE i \in byId : TRUE]]
       ELSE [found |-> "no", t |-> NoT]

\* Step 1 of the handler: by provider_template_id, then by (elementName,
\* languageCode).  objects.get raises MultipleObjectsReturned on several rows.
LocateTemplate(table, payload) ==
    LET template_id == Get(payload, "id")
        element_name == Get(payload, "elementName")
        language_code == Get(payload, "languageCode")
        byId == IF Truthy(template_id)
                THEN {i \in DOMAIN table :
                         table[i].provider_template_id = template_id}
                ELSE {}
        byName == {i \in DOMAIN table :
                      /\ table[i].elementName = element_name
                      /\ table[i].languageCode = language_code}
    IN IF Cardinality(byId) > 1 THEN [found |-> "raised", t |-> NoT]
       ELSE IF Cardinality(byId) = 1
       THEN [found |-> "yes", t |-> table[CHOOSE i \in byId : TRUE]]
       ELSE IF Truthy(element_name) /\ Truthy(language_code)
       THEN IF Cardinality(byName) > 1 THEN [found |-> "raised", t |-> NoT]
            ELSE IF Cardinality(byName) = 1
            THEN [found |-> "yes", t |-> table[CHOOSE i \in byName : TRUE]]
            ELSE [found |-> "no", t |-> NoT]
       ELSE [found |-> "no", t |-> NoT]

\* Step 2 of the handler, per event type: whether the type is recognised, the
\* value for the primary field, the audit payload, and whether
\* mark_as_deleted runs.
ProcessEvent(payload) ==
    LET event_type == Get(payload, "type")
    IN IF event_type \in {"status-update", None}
       THEN LET new_status == Lower(GetOr(payload, "status", ""))
                valid == new_status # "" /\ new_status \in STATUS_CHOICES
                description == Get(payload, "description")
            IN [recognised |-> TRUE,
                main_field_value |-> IF valid THEN new_status ELSE "",
                meta |-> ("status_description" :>
                             (IF Truthy(description) THEN description ELSE None))
                         @@ (IF valid THEN ("status" :> new_status) ELSE <<>>),
                mark_deleted |-> (new_status = "deleted")]
       ELSE IF event_type = "category-update"
       THEN LET category_data == GetOr(payload, "category", <<>>)
                new_category == Get(category_data, "new")
                old_category == Get(category_data, "old")
            IN [recognised |-> TRUE,
                main_field_value |->
                    IF Truthy(new_category) THEN new_category ELSE "",
                meta |-> (IF Truthy(new_category)
                          THEN ("category" :> Upper(new_category)) ELSE <<>>)
                         @@ (IF Truthy(old_category)
                             THEN ("oldCategory" :> Upper(old_category))
                             ELSE <<>>),
                mark_deleted |-> FALSE]
       ELSE IF event_type = "quality-update"
       THEN LET quality_raw == Get(payload, "quality")
            IN [recognised |-> TRUE,
                main_field_value |->
                    IF Truthy(quality_raw) THEN quality_raw ELSE "",
                meta |-> IF Truthy(quality_raw)
                         THEN ("quality" :> quality_raw) ELSE <<>>,
                mark_deleted |-> FALSE]
       ELSE [recognised |-> FALSE, main_field_value |-> "", meta |-> <<>>,
             mark_deleted |-> FALSE]

----------------------------------------------------------------------------
(* Request handlers (views.py) *)

\* get_object() over get_queryset(): the tenant's own, visible template.
Visible(id) ==
    /\ id \in DOMAIN rows
    /\ rows[id].org = OrgA
    /\ rows[id].app = AppP
    /\ rows[id].isDeleted = "none"

\* WhatsAppTemplateViewSet.send_for_approval: enqueues the submit job for
\* the pk of the path, without reading the table.
send_for_approval ==
    /\ \E pk \in TemplateIds : Enqueue(NewJob("submit", pk, NoEvent))
    /\ UNCHANGED <<rows, nextId, providerApps, client, handler, now>>

\* The validated data of a tenant's PUT/PATCH, over the modelled fields that
\* WhatsAppTemplateSerializer lists without read_only: a body that changes
\* none of them, and one that sends a status of STATUS_CHOICES.
UpdateRequests == { <<>>, ("status" :> "approved") }

\* ModelSerializer.update: setattr(instance, field, value) for each field of
\* the validated data; the instance.save() that follows is the save(...)
\* perform_update applies.
serializer_update(t, data) ==
    [f \in DOMAIN t |-> IF f \in DOMAIN data THEN data[f] ELSE t[f]]

\* WhatsAppTemplateViewSet.perform_update: serializer.save(), then the
\* update job is enqueued.
perform_update ==
    \E pk \in TemplateIds, data \in UpdateRequests :
        /\ Visible(pk)
        /\ rows' = save(rows, serializer_update(rows[pk], data))
        /\ Enqueue(NewJob("update", pk, NoEvent))
        /\ UNCHANGED <<nextId, providerApps, client, handler, now>>

\* WhatsAppTemplateViewSet.perform_destroy, first half: the delete job is
\* enqueued; the handler still holds the instance get_object() loaded.
perform_destroy_enqueue ==
    \E pk \in TemplateIds :
        /\ handler = NoT
        /\ Visible(pk)
        /\ Enqueue(NewJob("delete", pk, NoEvent))
        /\ handler' = rows[pk]
        /\ UNCHANGED <<rows, nextId, providerApps, client, now>>

\* perform_destroy, second half: instance.isDeleted = 'Processing';
\* instance.save().
perform_destroy_save ==
    /\ handler # NoT
    /\ rows' = save(rows, [handler EXCEPT !.isDeleted = "Processing"])
    /\ handler' = NoT
    /\ UNCHANGED <<nextId, providerApps, client, jobs, now, quota>>

\* WhatsAppTemplateViewSet.sync_from_provider
sync_from_provider ==
    /\ Enqueue(NewJob("sync", 0, NoEvent))
    /\ UNCHANGED <<rows, nextId, providerApps, client, handler, now>>

\* gupshup_webhook: a template-event is handed to process_gupshup_webhook.
gupshup_webhook ==
    /\ \E e \in WebhookEvents : Enqueue(NewJob("webhook", 0, e))
    /\ UNCHANGED <<rows, nextId, providerApps, client, handler, now>>

\* datetime.now() advances.
Tick ==
    /\ now < MaxNow
    /\ now' = now + 1
    /\ UNCHANGED <<rows, nextId, providerApps, client, jobs, handler, quota>>

----------------------------------------------------------------------------
(* Jobs (tasks.py).  A worker runs a queued task instance in two steps:    *)
(* the lookup phase, which loads the template, and the provider-call phase *)
(* with the writes that follow it.                                         *)

SetJob(j, job) == jobs' = [jobs EXCEPT ![j] = job]

Running(j, kind, pc) ==
    /\ j \in JobIds
    /\ jobs[j].kind = kind
    /\ jobs[j].pc = pc

\* The outcomes of the provider-call phase that are inputs: one of the HTTP
\* outcomes, or a fault raised inside the task's try block.
CallOutcomes == HttpOutcomes \cup {"fault"}

\* What the lookup phase of submit_template_for_approval and of
\* update_template_with_provider decides.
SubmitLookupOk(job) ==
    /\ job.template_id \in DOMAIN rows
    /\ ProviderInstanceExists(job.org_id, job.app_id)
    /\ get_app_token(job.app_id) # None

\* What the lookup phase of delete_template_with_provider decides: the
\* template and the provider instance are looked up, the token is not checked.
DeleteLookupOk(job) ==
    /\ job.template_id \in DOMAIN rows
    /\ ProviderInstanceExists(job.org_id, job.app_id)

\* What the lookup phase of sync_templates_for_app_id decides.
SyncLookupOk(job) ==
    /\ ProviderInstanceExists(job.org_id, job.app_id)
    /\ get_app_token(job.app_id) # None

Loaded(job, t) == [job EXCEPT !.pc = "provider", !.state = "PROGRESS", !.t = t]

\* submit_template_for_approval, lookup phase
submit_lookup ==
    \E j \in JobIds :
        /\ Running(j, "submit", "queued")
        /\ SetJob(j, IF SubmitLookupOk(jobs[j])
                     THEN Loaded(jobs[j], rows[jobs[j].template_id])
                     ELSE Failed(jobs[j]))
        /\ UNCHANGED <<rows, nextId, providerApps, client, handler, now, quota>>

\* The task's handling of the provider's result in the submit and update
\* jobs: the error-audit write, the reported state, and the retry the
\* `except Exception` handler starts for the ValueError of a failure result.
AfterResult(job, resp, key) ==
    IF resp.ok
    THEN [table |-> save(rows, update_error_meta(resp.t, key, "Success")),
          job |-> Succeeded(Called(job, "ok", TRUE))]
    ELSE [table |-> save(rows, update_error_meta(resp.t, key, resp.response)),
          job |-> RetryOrFail(Called(job, "fail", FALSE))]

\* submit_template_for_approval, provider-call and persist phases
submit_call ==
    \E j \in JobIds, out \in CallOutcomes :
        /\ Running(j, "submit", "provider")
        /\ IF out = "fault"
           THEN /\ SetJob(j, RetryOrFail(Called(jobs[j], "exc", FALSE)))
                /\ rows' = rows
           ELSE LET resp == submit_template(jobs[j].t, out)
                    r == AfterResult(jobs[j], resp, APPLY_TEMPLATE)
                IN /\ rows' = r.table
                   /\ SetJob(j, [r.job EXCEPT
                                    !.accepted = @ \/ (out = "accepted")])
        /\ UNCHANGED <<nextId, providerApps, client, handler, now, quota>>

\* update_template_with_provider, lookup phase
update_lookup ==
    \E j \in JobIds :
        /\ Running(j, "update", "queued")
        /\ SetJob(j, IF SubmitLookupOk(jobs[j])
                     THEN Loaded(jobs[j], rows[jobs[j].template_id])
                     ELSE Failed(jobs[j]))
        /\ UNCHANGED <<rows, nextId, providerApps, client, handler, now, quota>>

\* update_template_with_provider, provider-call and persist phases
update_call ==
    \E j \in JobIds, out \in CallOutcomes :
        /\ Running(j, "update", "provider")
        /\ IF out = "fault"
           THEN /\ SetJob(j, RetryOrFail(Called(jobs[j], "exc", FALSE)))
                /\ rows' = rows
           ELSE LET resp == update_template(jobs[j].t, out)
                    r == AfterResult(jobs[j], resp, UPDATE_TEMPLATE)
                IN /\ rows' = r.table
                   /\ SetJob(j, [r.job EXCEPT
                                    !.accepted = @ \/ (out = "accepted")])
        /\ UNCHANGED <<nextId, providerApps, client, handler, now, quota>>

\* delete_template_with_provider, lookup phase
delete_lookup ==
    \E j \in JobIds :
        /\ Running(j, "delete", "queued")
        /\ SetJob(j, IF DeleteLookupOk(jobs[j])
                     THEN Loaded(jobs[j], rows[jobs[j].template_id])
                     ELSE Failed(jobs[j]))
        /\ UNCHANGED <<rows, nextId, providerApps, client, handler, now, quota>>

\* Variant of AfterDelete that removes the row whatever the provider answered.
AfterDelete_unconditional(job, result) ==
    IF result.ok
    THEN [table |-> delete(rows, job.t),
          job |-> Succeeded(Called(job, "ok", TRUE))]
    ELSE [table |-> delete(rows, job.t),
          job |-> RetryOrFail(Called(job, "fail", FALSE))]

\* Variant of AfterDelete that soft-deletes the template on a failure result.
AfterDelete_marks_deleted(job, result) ==
    IF result.ok
    THEN [table |-> delete(rows, job.t),
          job |-> Succeeded(Called(job, "ok", TRUE))]
    ELSE [table |-> save(rows, mark_as_deleted(
                        update_error_meta(job.t, DELETE_TEMPLATE,
                                          result.response))),
          job |-> RetryOrFail(Called(job, "fail", FALSE))]

\* The delete job's handling of the provider's result.
AfterDelete(job, result) ==
    IF result.ok
    THEN [table |-> delete(rows, job.t),
          job |-> Succeeded(Called(job, "ok", TRUE))]
    ELSE [table |-> save(rows, update_error_meta(job.t, DELETE_TEMPLATE,
                                                 result.response)),
          job |-> RetryOrFail(Called(job, "fail", FALSE))]

\* delete_template_with_provider, provider-call and persist phases
delete_call ==
    \E j \in JobIds, out \in CallOutcomes :
        /\ Running(j, "delete", "provider")
        /\ IF out = "fault"
           THEN /\ SetJob(j, RetryOrFail(Called(jobs[j], "exc", FALSE)))
                /\ rows' = rows
           ELSE LET r == AfterDelete(jobs[j], delete_template(jobs[j].t, out))
                IN /\ rows' = r.table
                   /\ SetJob(j, r.job)
        /\ UNCHANGED <<nextId, providerApps, client, handler, now, quota>>

\* sync_templates_for_app_id, lookup phase
sync_lookup ==
    \E j \in JobIds :
        /\ Running(j, "sync", "queued")
        /\ SetJob(j, IF SyncLookupOk(jobs[j])
                     THEN Loaded(jobs[j], NoT)
                     ELSE Failed(jobs[j]))
        /\ UNCHANGED <<rows, nextId, providerApps, client, handler, now, quota>>

\* sync_templates_for_app_id, provider-call and persist phases: the list is
\* fetched and the staged objects are written in one transaction.  `lists`
\* are the template lists the provider may answer with.
SyncCallWith(lists) ==
    \E j \in JobIds, out \in CallOutcomes, remote \in lists :
        /\ Running(j, "sync", "provider")
        /\ IF out = "accepted"
           THEN LET objs == get_templates(rows, remote, jobs[j].org_id)
                    created == atomic(rows, nextId, objs)
                    job == [jobs[j] EXCEPT
                               !.fetched = remote,
                               !.written = IF created.raised THEN 0
                                           ELSE Cardinality(UpdatedKeys(objs))
                                                + Cardinality(NewObjects(objs))]
                IN /\ created.next <= MaxTemplateId + 1
                   /\ rows' = created.table
                   /\ nextId' = created.next
                   /\ SetJob(j, IF created.raised
                                THEN RetryOrFail(Called(job, "exc", TRUE))
                                ELSE Succeeded(Called(job, "ok", TRUE)))
           ELSE /\ SetJob(j, RetryOrFail(Called(jobs[j],
                                 IF out = "fault" THEN "exc" ELSE "fail", FALSE)))
                /\ UNCHANGED <<rows, nextId>>
        /\ UNCHANGED <<providerApps, client, handler, now, quota>>

sync_call == SyncCallWith(RemoteLists)

\* sync_call against a provider whose list may also hold the sample record.
sync_call_sample == SyncCallWith(RemoteLists \cup SampleLists)

\* process_gupshup_webhook, first step of the handler: locate the template.
webhook_lookup ==
    \E j \in JobIds :
        /\ Running(j, "webhook", "queued")
        /\ LET l == LocateTemplate(rows, jobs[j].event)
           IN SetJob(j, CASE l.found = "yes" -> Loaded(jobs[j], l.t)
                          [] l.found = "no" ->
                               Failed([jobs[j] EXCEPT !.applied = "False"])
                          [] OTHER -> Failed(jobs[j]))
        /\ UNCHANGED <<rows, nextId, providerApps, client, handler, now, quota>>

\* Variant of ApplyEvent that logs an event of an unrecognised type too.
ApplyEvent_logs_unrecognised(table, t, payload) ==
    LET p == ProcessEvent(payload)
    IN save(table, _update_and_log_webhook_event(
                       t, Get(payload, "type"), p.main_field_value, p.meta))

\* The handler's writes for a located template: mark_as_deleted (saved) for
\* a deleted status, then the combined update of the primary field and of
\* webhookMeta (saved).
ApplyEvent(table, t, payload) ==
    LET p == ProcessEvent(payload)
        t1 == IF p.mark_deleted THEN mark_as_deleted(t) ELSE t
        table1 == IF p.mark_deleted THEN save(table, t1) ELSE table
        t2 == _update_and_log_webhook_event(
                  t1, Get(payload, "type"), p.main_field_value, p.meta)
    IN IF p.recognised THEN save(table1, t2) ELSE table

\* process_gupshup_webhook, second step of the handler and end of the task.
webhook_apply ==
    \E j \in JobIds :
        /\ Running(j, "webhook", "provider")
        /\ rows' = ApplyEvent(rows, jobs[j].t, jobs[j].event)
        /\ SetJob(j, IF ProcessEvent(jobs[j].event).recognised
                     THEN Succeeded([jobs[j] EXCEPT !.applied = "True"])
                     ELSE Failed([jobs[j] EXCEPT !.applied = "False"]))
        /\ UNCHANGED <<nextId, providerApps, client, handler, now, quota>>

\* The handler's writes when the save() of the combined update raises (a
\* database error): mark_as_deleted has already saved its own change, the
\* combined update is not stored.
ApplyEventWriteFails(table, t, payload) ==
    LET p == ProcessEvent(payload)
    IN IF p.mark_deleted THEN save(table, mark_as_deleted(t)) ELSE table

\* process_gupshup_webhook, second step of the handler when the final save
\* raises: the handler's `except Exception` returns False, the task raises
\* ValueError and ends in FAILURE.
webhook_apply_write_fails ==
    \E j \in JobIds :
        /\ Running(j, "webhook", "provider")
        /\ ProcessEvent(jobs[j].event).recognised
        /\ rows' = ApplyEventWriteFails(rows, jobs[j].t, jobs[j].event)
        /\ SetJob(j, Failed([jobs[j] EXCEPT !.applied = "False"]))
        /\ UNCHANGED <<nextId, providerApps, client, handler, now, quota>>

----------------------------------------------------------------------------
(* GupshupProvider followed step by step: media handling of submit_template,
   upload_media, and the request layer under the four template methods *)

\* template.media_url, reduced to what the code inspects of the string: its
\* length, whether it has the shape of GUPSHUP_HANDLE_ID_PATTERN, whether
\* URLValidator(schemes=http, https) accepts it, and the MIME type
\* mimetypes.guess_type infers from its path.
MediaRef(name, length, pattern, url, mime) ==
    [name |-> name, length |-> length, handle_pattern |-> pattern,
     valid_url |-> url, mime |-> mime]

NoMedia == MediaRef("", 0, FALSE, FALSE, None)

MediaRefs ==
    { NoMedia,
      MediaRef("4::aW1hZ2UvcG5n:ARZ_tgiX9qLmB2:e:1760802361:340398:615823:ARZ4kPq",
               65, TRUE, FALSE, None),
      MediaRef("4::abcXYZ123:tokenSeg:e:1700000000:seg:seg:seg", 46, TRUE, FALSE, None),
      MediaRef("https://cdn.example.com/1.png", 29, FALSE, TRUE, "image/png"),
      MediaRef("https://cdn.example.com/a/long/path/to/the/picture.png", 54,
               FALSE, TRUE, "image/png"),
      MediaRef("https://cdn.example.com/1.pdf", 29, FALSE, TRUE, "application/pdf"),
      MediaRef("https://cdn.example.com/file", 28, FALSE, TRUE, None),
      MediaRef("not a url", 9, FALSE, FALSE, None) }

FileTypes == {"IMAGE", "image", "STICKER"}

\* str.upper() on the file types of the model.
UpperType(s) == IF s = "image" THEN "IMAGE" ELSE s

\* TEMPLATE_MIME_GROUPS and ALLOWED_MIME_TYPES, for the MIME types of the model.
TEMPLATE_MIME_GROUPS ==
    [IMAGE |-> {"image/jpeg", "image/png", "image/webp"},
     DOCUMENT |-> {"application/pdf", "text/plain"}]

ALLOWED_MIME_TYPES == TEMPLATE_MIME_GROUPS.IMAGE \cup TEMPLATE_MIME_GROUPS.DOCUMENT

HandleMinLength == 50      \* len(id_string) < 50
UploadAttempts == 3        \* for attempt in range(3)

\* Variant of is_gupshup_handle_id that recognises no handle.
is_gupshup_handle_id_never(ref) == FALSE

\* media_validator.is_gupshup_handle_id
is_gupshup_handle_id(ref) ==
    IF ref.length = 0 \/ ref.length < HandleMinLength
    THEN FALSE
    ELSE ref.handle_pattern

\* media_validator.is_valid_media_url: the tuple (is_valid, file_type).
is_valid_media_url(ref, template_type) ==
    IF ref.length = 0 THEN <<FALSE, None>>
    ELSE IF ~ref.valid_url THEN <<FALSE, None>>
    ELSE IF UpperType(template_type) \notin DOMAIN TEMPLATE_MIME_GROUPS
    THEN <<FALSE, None>>
    ELSE IF ref.mime = None THEN <<FALSE, None>>
    ELSE IF ref.mime \notin ALLOWED_MIME_TYPES THEN <<FALSE, ref.mime>>
    ELSE IF ref.mime \notin TEMPLATE_MIME_GROUPS[UpperType(template_type)]
    THEN <<FALSE, ref.mime>>
    ELSE <<TRUE, ref.mime>>

\* Python truth value of a tuple, as `if not isValidMedia` takes it: a tuple
\* is false only when it is empty.
TupleTruth(tuple) == Len(tuple) > 0

\* What the provider's HTTP endpoint does with a request: 2xx with JSON
\* status success, HTTP 4xx, HTTP 5xx, or no response (network error).
ProviderResponses == {"accepted", "http_4xx", "http_5xx", "network"}

\* Variant of _make_request that lets the network error escape.
_make_request_raising(http) ==
    CASE http = "accepted" -> [raised |-> FALSE, ok |-> TRUE, status_code |-> 200]
      [] http = "http_4xx" -> [raised |-> FALSE, ok |-> FALSE, status_code |-> 400]
      [] http = "http_5xx" -> [raised |-> FALSE, ok |-> FALSE, status_code |-> 500]
      [] OTHER -> [raised |-> TRUE, ok |-> FALSE, status_code |-> 0]

\* GupshupProvider._make_request: raise_for_status turns 4xx/5xx into
\* HTTPError, which is caught and returned with the response's status code;
\* any other RequestException is caught and returned with status_code 0.
_make_request(http) ==
    CASE http = "accepted" -> [raised |-> FALSE, ok |-> TRUE, status_code |-> 200]
      [] http = "http_4xx" -> [raised |-> FALSE, ok |-> FALSE, status_code |-> 400]
      [] http = "http_5xx" -> [raised |-> FALSE, ok |-> FALSE, status_code |-> 500]
      [] OTHER -> [raised |-> FALSE, ok |-> FALSE, status_code |-> 0]

\* The outcome of _make_request as the template methods of the model take it.
AsHttpOutcome(http) ==
    CASE http = "accepted" -> "accepted"
      [] http = "network" -> "network"
      [] OTHER -> "rejected"

Methods == {"submit_template", "update_template", "delete_template", "get_templates"}

\* No method call in progress.
NoCall ==
    [method |-> "", pc |-> "idle", media |-> NoMedia, file_type |-> "",
     http |-> "",            \* what the endpoint did with the method's request
     downloads |-> 0,        \* media downloads (requests.get) sent
     uploads |-> 0,          \* media upload attempts (requests.post) sent
     media_id |-> None,      \* provider_metadata['media_id']
     requests |-> 0,         \* requests sent through _make_request
     status_code |-> None,   \* status_code _make_request reported
     ok |-> FALSE, response |-> None,   \* the result the method returned
     raised |-> FALSE]       \* the method raised instead of returning

\* The method returns a result.
Return(call, ok, response) ==
    [call EXCEPT !.pc = "done", !.ok = ok, !.response = response]

\* A template method of the client is called.
client_call ==
    /\ client.pc = "idle"
    /\ \E m \in Methods, ref \in MediaRefs, ft \in FileTypes :
          /\ (m # "submit_template") => (ref = NoMedia /\ ft = "IMAGE")
          /\ client' = [client EXCEPT !.method = m, !.media = ref,
                                      !.file_type = ft, !.pc = "start"]
    /\ UNCHANGED <<rows, nextId, providerApps, jobs, handler, now, quota>>

\* submit_template up to the call of upload_media: the handle test and the
\* validation of the media URL.
submit_media_check ==
    /\ client.pc = "start"
    /\ client.method = "submit_template"
    /\ client' =
         IF client.media.length = 0
         THEN [client EXCEPT !.pc = "request"]
         ELSE IF is_gupshup_handle_id(client.media)
         THEN [client EXCEPT !.pc = "request", !.media_id = client.media.name]
         ELSE IF ~TupleTruth(is_valid_media_url(client.media, client.file_type))
         THEN Return(client, FALSE, "Invalid media URL or file type")
         ELSE [client EXCEPT !.pc = "download"]
    /\ UNCHANGED <<rows, nextId, providerApps, jobs, handler, now, quota>>

\* upload_media, step 1: requests.get(media_url).  A string that is no URL
\* raises before anything is sent; a response other than 200 raises too.
\* upload_media re-raises, and submit_template's handler returns the
\* 'Internal error' result.
upload_media_download ==
    /\ client.pc = "download"
    /\ IF ~client.media.valid_url
       THEN client' = Return(client, FALSE, "Internal error")
       ELSE \E status \in {"200", "failed"} :
               client' = IF status = "200"
                         THEN [client EXCEPT !.downloads = @ + 1, !.pc = "upload"]
                         ELSE Return([client EXCEPT !.downloads = @ + 1],
                                     FALSE, "Internal error")
    /\ UNCHANGED <<rows, nextId, providerApps, jobs, handler, now, quota>>

\* Variant of AfterUploadAttempt that goes on to the template request when
\* the attempts are used up.
AfterUploadAttempt_submits_anyway(call, handle) ==
    IF handle # None
    THEN [call EXCEPT !.uploads = @ + 1, !.pc = "request", !.media_id = handle]
    ELSE IF call.uploads + 1 < UploadAttempts
    THEN [call EXCEPT !.uploads = @ + 1]
    ELSE [call EXCEPT !.uploads = @ + 1, !.pc = "request"]

\* One pass of upload_media's `for attempt in range(3)` and what follows it:
\* the handle is returned at once and stored as media_id; a failed attempt is
\* followed by the next one, and the third failure by HTTPError, which
\* submit_template's handler turns into the 'Internal error' result.
AfterUploadAttempt(call, handle) ==
    IF handle # None
    THEN [call EXCEPT !.uploads = @ + 1, !.pc = "request", !.media_id = handle]
    ELSE IF call.uploads + 1 < UploadAttempts
    THEN [call EXCEPT !.uploads = @ + 1]
    ELSE Return([call EXCEPT !.uploads = @ + 1], FALSE, "Internal error")

\* upload_media, step 3: one upload attempt.
upload_media_attempt ==
    /\ client.pc = "upload"
    /\ \E handle \in {"handle_1", None} :
          client' = AfterUploadAttempt(client, handle)
    /\ UNCHANGED <<rows, nextId, providerApps, jobs, handler, now, quota>>

\* The result of a template method for what _make_request reported.
\* get_templates has no exception handler of its own.
MethodResult(call, r, http) ==
    LET t == rows[CHOOSE id \in DOMAIN rows : TRUE]
        res == CASE call.method = "submit_template" ->
                        submit_template(t, AsHttpOutcome(http))
                 [] call.method = "update_template" ->
                        update_template(t, AsHttpOutcome(http))
                 [] call.method = "delete_template" ->
                        delete_template(t, AsHttpOutcome(http))
                 [] OTHER -> [ok |-> r.ok,
                              response |-> IF r.ok THEN "templates"
                                           ELSE ErrorText(AsHttpOutcome(http))]
        sent == [call EXCEPT !.requests = @ + 1, !.http = http,
                             !.status_code = r.status_code]
    IN IF r.raised
       THEN IF call.method = "get_templates"
            THEN [sent EXCEPT !.pc = "done", !.raised = TRUE]
            ELSE Return(sent, FALSE, "Internal error")
       ELSE Return(sent, res.ok, res.response)

\* The method's request to the provider through _make_request, and its
\* return.
client_request ==
    /\ \/ client.pc = "request"
       \/ client.pc = "start" /\ client.method # "submit_template"
    /\ \E http \in ProviderResponses :
          client' = MethodResult(client, _make_request(http), http)
    /\ UNCHANGED <<rows, nextId, providerApps, jobs, handler, now, quota>>

----------------------------------------------------------------------------
(* Specifications *)

\* The ProviderAppInstance of the request path: owned by the tenant with a
\* stored token; owned by the tenant with no stored secret or token (a row
\* not written through set_app_token); or owned by another organisation, so
\* that the jobs' lookup by (organisation_id, app_id) finds nothing.
ProviderAppConfigs ==
    { (AppP :> [organisation |-> OrgA, has_token |-> TRUE]),
      (AppP :> [organisation |-> OrgA, has_token |-> FALSE]),
      (AppP :> [organisation |-> OrgB, has_token |-> TRUE]) }

\* The tenant's template: a draft, or one the provider already knows.
InitialTemplates ==
    { NewTemplate(1, "otp_1", None, "draft"),
      NewTemplate(1, "otp_1", ProviderTemplateId, "pending") }

\* The state after deployment with `q` task instances still to be enqueued.
InitWith(q) ==
    /\ rows \in {(1 :> t) : t \in InitialTemplates}
    /\ nextId = 2
    /\ providerApps \in ProviderAppConfigs
    /\ jobs = <<>>
    /\ handler = NoT
    /\ now = 0
    /\ quota = q
    /\ client = NoCall

\* The request handlers and the jobs they enqueue, the clock standing still.
Init == InitWith(MaxJobs)

Next ==
    \/ send_for_approval
    \/ perform_update
    \/ perform_destroy_enqueue
    \/ perform_destroy_save
    \/ sync_from_provider
    \/ gupshup_webhook
    \/ submit_lookup
    \/ submit_call
    \/ update_lookup
    \/ update_call
    \/ delete_lookup
    \/ delete_call
    \/ sync_lookup
    \/ sync_call
    \/ webhook_lookup
    \/ webhook_apply

Spec == Init /\ [][Next]_vars

\* Spec under fair scheduling: a request handler that has begun runs to its
\* end, and the worker pool runs every task instance that is queued or in
\* progress.  Requests themselves and the provider's answers are not forced.
Fairness ==
    /\ WF_vars(perform_destroy_save)
    /\ WF_vars(submit_lookup) /\ WF_vars(submit_call)
    /\ WF_vars(update_lookup) /\ WF_vars(update_call)
    /\ WF_vars(delete_lookup) /\ WF_vars(delete_call)
    /\ WF_vars(sync_lookup) /\ WF_vars(sync_call)
    /\ WF_vars(webhook_lookup) /\ WF_vars(webhook_apply)

SpecFair == Init /\ [][Next]_vars /\ Fairness

\* Webhook deliveries only, processed concurrently while the clock advances.
InitWebhook == InitWith(MaxEvents)

NextWebhook ==
    \/ gupshup_webhook
    \/ Tick
    \/ webhook_lookup
    \/ webhook_apply

SpecWebhook == InitWebhook /\ [][NextWebhook]_vars

\* Webhook deliveries whose final write can fail.
NextWebhookFault ==
    \/ gupshup_webhook
    \/ Tick
    \/ webhook_lookup
    \/ webhook_apply
    \/ webhook_apply_write_fails

SpecWebhookFault == InitWebhook /\ [][NextWebhookFault]_vars

\* Submit jobs and webhook deliveries on the worker pool at the same time.
InitRace == InitWith(MaxRaceJobs)

NextRace ==
    \/ send_for_approval
    \/ gupshup_webhook
    \/ submit_lookup
    \/ submit_call
    \/ webhook_lookup
    \/ webhook_apply

SpecRace == InitRace /\ [][NextRace]_vars

\* Sync requests and webhook deliveries: a template can be synced and then
\* saved by a webhook task.
InitResync == InitWith(MaxResyncJobs)

NextResync ==
    \/ sync_from_provider
    \/ gupshup_webhook
    \/ sync_lookup
    \/ sync_call_sample
    \/ webhook_lookup
    \/ webhook_apply

SpecResync == InitResync /\ [][NextResync]_vars

\* Webhook deliveries that name a template by id, by (elementName,
\* languageCode) or by both, against a table of two templates: a second
\* template of the tenant, or another tenant's template of the same name.
LocateEvents ==
    { [id |-> ProviderTemplateId, elementName |-> "promo", languageCode |-> "en",
       type |-> "status-update", status |-> "approved"],
      [id |-> "unknown", elementName |-> "promo", languageCode |-> "en",
       type |-> "status-update", status |-> "approved"],
      [id |-> "unknown", elementName |-> "nosuch", languageCode |-> "en",
       type |-> "status-update", status |-> "approved"],
      [id |-> "unknown", type |-> "status-update", status |-> "approved"],
      [id |-> "unknown", elementName |-> "otp_1",
       type |-> "status-update", status |-> "approved"],
      [elementName |-> "otp_1", languageCode |-> "en",
       type |-> "status-update", status |-> "approved"] }

SecondTemplates ==
    { NewTemplate(2, "promo", "xyz789", "pending"),
      [NewTemplate(2, "otp_1", None, "draft") EXCEPT !.org = OrgB] }

InitLocate ==
    /\ rows \in {(1 :> NewTemplate(1, "otp_1", ProviderTemplateId, "pending"))
                    @@ (2 :> t) : t \in SecondTemplates}
    /\ nextId = 3
    /\ providerApps \in ProviderAppConfigs
    /\ jobs = <<>>
    /\ handler = NoT
    /\ now = 0
    /\ quota = MaxLocates
    /\ client = NoCall

\* gupshup_webhook for the deliveries of LocateEvents.
gupshup_webhook_locate ==
    /\ \E e \in LocateEvents : Enqueue(NewJob("webhook", 0, e))
    /\ UNCHANGED <<rows, nextId, providerApps, client, handler, now>>

NextLocate ==
    \/ gupshup_webhook_locate
    \/ Tick
    \/ webhook_lookup
    \/ webhook_apply

SpecLocate == InitLocate /\ [][NextLocate]_vars

\* One call of a method of GupshupProvider.
NextClient ==
    \/ client_call
    \/ submit_media_check
    \/ upload_media_download
    \/ upload_media_attempt
    \/ client_request

SpecClient == Init /\ [][NextClient]_vars

\* Sync requests only, run one after another or concurrently.
InitSync == InitWith(MaxSyncs)

NextSync ==
    \/ sync_from_provider
    \/ sync_lookup
    \/ sync_call

SpecSync == InitSync /\ [][NextSync]_vars

\* The sync requests of Spec alone.
SpecSyncJob == Init /\ [][NextSync]_vars

----------------------------------------------------------------------------
(* Properties *)

ProviderJobKinds == {"submit", "update", "delete", "sync"}

\* C1: a job of one of the four provider kinds to which the provider client
\* has only ever returned failure results (no success, no exception) has
\* invoked the provider exactly once, was not retried, and has ended
\* reporting FAILURE.
C1_FailureResultNotRetried ==
    \A j \in JobIds :
        (jobs[j].kind \in ProviderJobKinds /\ jobs[j].results = {"fail"})
            => /\ jobs[j].calls = 1
               /\ jobs[j].retries = 0
               /\ jobs[j].pc = "done"
               /\ jobs[j].state = "FAILURE"

\* C2: each execution of the provider-call phase of a job whose every
\* execution of that phase has thrown is one of at most 4; after the first,
\* second and third the job is retried, and after the fourth it ends
\* reporting FAILURE.
C2_RetryBound ==
    [][\A j \in JobIds :
          (/\ jobs[j].kind \in ProviderJobKinds
           /\ jobs[j].pc = "provider"
           /\ jobs'[j].calls = jobs[j].calls + 1
           /\ jobs'[j].results = {"exc"})
              => /\ jobs'[j].calls <= 4
                 /\ jobs'[j].calls < 4 =>
                        /\ jobs'[j].pc = "queued"
                        /\ jobs'[j].state = "RETRY"
                        /\ jobs'[j].retries = jobs'[j].calls
                 /\ jobs'[j].calls = 4 =>
                        /\ jobs'[j].pc = "done"
                        /\ jobs'[j].state = "FAILURE"]_vars

\* A job has ended in FAILURE after four attempts that all threw.
C2_Witness ==
    \E j \in JobIds :
        /\ jobs[j].results = {"exc"}
        /\ jobs[j].calls = 4
        /\ jobs[j].pc = "done"
        /\ jobs[j].state = "FAILURE"

\* In this step the delete job j received the provider's confirmation for
\* the template `id` it had loaded and ended with SUCCESS.
DeleteConfirmed(j, id) ==
    /\ jobs[j].kind = "delete"
    /\ jobs[j].pc = "provider"
    /\ jobs[j].t.id = id
    /\ jobs'[j].calls = jobs[j].calls + 1
    /\ jobs'[j].accepted
    /\ jobs'[j].state = "SUCCESS"

DeleteCallAnswered(j) ==
    /\ jobs[j].kind = "delete"
    /\ jobs[j].pc = "provider"
    /\ jobs'[j].calls = jobs[j].calls + 1
    /\ jobs'[j].results \subseteq {"ok", "fail"}

\* C4: whenever a delete job issues its provider delete call, the template
\* is stored with isDeleted = 'Processing'.
C4_ProcessingBeforeProviderCall ==
    [][\A j \in JobIds :
          DeleteCallAnswered(j) =>
              /\ jobs[j].template_id \in DOMAIN rows
              /\ rows[jobs[j].template_id].isDeleted = "Processing"]_vars

\* No webhook delivery reports the template deleted and no delete job was
\* confirmed by the provider.
NoDeletionReported ==
    \A k \in JobIds :
        /\ jobs[k].kind = "webhook" => ~ProcessEvent(jobs[k].event).mark_deleted
        /\ jobs[k].kind = "delete" => ~jobs[k].accepted

\* C5: once a delete job has ended whose every provider delete call failed
\* (failure result or exception), the template's row still exists and its
\* isDeleted marker is 'Processing' or the 'none' it had before the request,
\* not 'Deleted' (unless the provider itself reported or confirmed a
\* deletion to another job).
C5_FailedDeleteKeepsTemplate ==
    \A j \in JobIds :
        (/\ jobs[j].kind = "delete"
         /\ jobs[j].pc = "done"
         /\ jobs[j].calls > 0
         /\ ~jobs[j].accepted
         /\ NoDeletionReported)
            => /\ jobs[j].template_id \in DOMAIN rows
               /\ rows[jobs[j].template_id].isDeleted \in {"Processing", "none"}

\* A delete job has ended after a failure result on every attempt, the
\* request handler has finished, and the row is there, marked 'Processing'.
C5_Witness ==
    \E j \in JobIds :
        /\ jobs[j].kind = "delete"
        /\ jobs[j].pc = "done"
        /\ jobs[j].results = {"fail"}
        /\ jobs[j].state = "FAILURE"
        /\ handler = NoT
        /\ jobs[j].template_id \in DOMAIN rows
        /\ rows[jobs[j].template_id].isDeleted = "Processing"

\* C6: once a deletion request for a template whose provider app instance
\* does not exist has been handled (the handler has returned and the delete
\* job has ended), the template's row is gone.
C6_LocalOnlyDeletion ==
    \A j \in JobIds :
        (/\ jobs[j].kind = "delete"
         /\ jobs[j].pc = "done"
         /\ handler = NoT
         /\ ~ProviderInstanceExists(jobs[j].org_id, jobs[j].app_id))
            => jobs[j].template_id \notin DOMAIN rows

\* What the lookup phase of job j is missing: the template, the provider app
\* instance, or the app token.
LookupMissing(j) ==
    \/ jobs[j].kind # "sync" /\ jobs[j].template_id \notin DOMAIN rows
    \/ ~ProviderInstanceExists(jobs[j].org_id, jobs[j].app_id)
    \/ get_app_token(jobs[j].app_id) = None

\* C7: a submit, update, delete or sync job that a worker starts while the
\* template, the provider app instance or the app token is missing ends in
\* that step with FAILURE, without a provider call and without a retry.
C7_LookupFailsTerminally ==
    [][\A j \in JobIds :
          (/\ jobs[j].kind \in ProviderJobKinds
           /\ jobs[j].pc = "queued"
           /\ jobs'[j] # jobs[j]
           /\ LookupMissing(j))
              => /\ jobs'[j].pc = "done"
                 /\ jobs'[j].state = "FAILURE"
                 /\ jobs'[j].calls = jobs[j].calls
                 /\ jobs'[j].retries = jobs[j].retries]_vars

\* C8: the step of a submit job in which the provider answers with success
\* and template {id: X, status: PENDING} leaves the stored template with
\* status 'pending' and provider template id X, and the job with SUCCESS.
C8_AcceptedSubmitIsStored ==
    [][\A j \in JobIds :
          (/\ jobs[j].kind = "submit"
           /\ jobs[j].pc = "provider"
           /\ ~jobs[j].accepted
           /\ jobs'[j].accepted)
              => /\ jobs'[j].state = "SUCCESS"
                 /\ jobs[j].template_id \in DOMAIN rows'
                 /\ rows'[jobs[j].template_id].status = "pending"
                 /\ rows'[jobs[j].template_id].provider_template_id
                        = ProviderTemplateId]_vars

\* The webhook job j holds a status-update event for the template it located
\* by provider template id and is about to apply it.
StatusUpdateLocatedById(j) ==
    /\ jobs[j].kind = "webhook"
    /\ jobs[j].pc = "provider"
    /\ Get(jobs[j].event, "type") = "status-update"
    /\ Truthy(Get(jobs[j].event, "id"))
    /\ jobs[j].t.provider_template_id = Get(jobs[j].event, "id")

\* C9: applying a status-update event with a status S of the status enum to
\* the template found by provider template id stores status S and
\* webhookMeta['status-update'] = the applied payload with the time of the
\* write, and the handler returns True; for S = 'deleted' the row is kept
\* with isDeleted = 'Deleted'.
C9_StatusUpdateApplied ==
    [][\A j \in JobIds :
          (/\ StatusUpdateLocatedById(j)
           /\ Lower(GetOr(jobs[j].event, "status", "")) \in STATUS_CHOICES
           /\ jobs'[j].pc = "done")
              => LET S == Lower(jobs[j].event.status)
                     id == jobs[j].t.id
                 IN /\ id \in DOMAIN rows'
                    /\ rows'[id].status = S
                    /\ "status-update" \in DOMAIN rows'[id].webhookMeta
                    /\ rows'[id].webhookMeta["status-update"]
                         = [status |-> S,
                            status_description |->
                                Get(jobs[j].event, "description"),
                            ts |-> now]
                    /\ jobs'[j].applied = "True"
                    /\ jobs'[j].state = "SUCCESS"
                    /\ S = "deleted" => rows'[id].isDeleted = "Deleted"]_vars

\* An APPROVED event and a deleted event have both been applied to the
\* template: the row is present, soft-deleted, with the audit entry.
C9_Witness ==
    /\ \E j \in JobIds :
          /\ jobs[j].kind = "webhook" /\ jobs[j].applied = "True"
          /\ Get(jobs[j].event, "status") = "APPROVED"
    /\ \E j \in JobIds :
          /\ jobs[j].kind = "webhook" /\ jobs[j].applied = "True"
          /\ Get(jobs[j].event, "status") = "deleted"
    /\ 1 \in DOMAIN rows
    /\ rows[1].status \in {"approved", "deleted"}
    /\ rows[1].isDeleted = "Deleted"
    /\ "status-update" \in DOMAIN rows[1].webhookMeta

\* C10: applying a status-update event whose status is missing or not in
\* the status enum leaves the stored status as it was and writes the audit
\* entry.
C10_UnknownStatusKeepsStatus ==
    [][\A j \in JobIds :
          (/\ jobs[j].kind = "webhook"
           /\ jobs[j].pc = "provider"
           /\ Get(jobs[j].event, "type") = "status-update"
           /\ Lower(GetOr(jobs[j].event, "status", "")) \notin STATUS_CHOICES
           /\ jobs'[j].pc = "done"
           /\ jobs[j].t.id \in DOMAIN rows)
              => /\ jobs[j].t.id \in DOMAIN rows'
                 /\ rows'[jobs[j].t.id].status = rows[jobs[j].t.id].status
                 /\ "status-update" \in DOMAIN rows'[jobs[j].t.id].webhookMeta]_vars

\* C11: applying an event without a sub-type (type None) that carries a
\* status S of the status enum stores status S, as a status-update does.
C11_UntypedEventSetsStatus ==
    [][\A j \in JobIds :
          (/\ jobs[j].kind = "webhook"
           /\ jobs[j].pc = "provider"
           /\ Get(jobs[j].event, "type") = None
           /\ Lower(GetOr(jobs[j].event, "status", "")) \in STATUS_CHOICES
           /\ jobs'[j].pc = "done")
              => /\ jobs[j].t.id \in DOMAIN rows'
                 /\ rows'[jobs[j].t.id].status
                        = Lower(jobs[j].event.status)]_vars

\* The results a provider client behind BaseProvider hands to the submit and
\* update tasks, which read resp.get('ok') and resp.get('response'): the
\* client the repository's test of submit_template builds (the parsing of
\* the accepting response stubbed) answers ok True on an accepting response.
StubResults(t) ==
    { [ok |-> TRUE, response |-> "template", t |-> t, saved |-> TRUE],
      [ok |-> FALSE, response |-> ErrorText("rejected"), t |-> t, saved |-> TRUE] }

\* submit_template_for_approval, provider-call and persist phases, run
\* against the stubbed client.
submit_call_stub ==
    \E j \in JobIds :
        /\ Running(j, "submit", "provider")
        /\ \E resp \in StubResults(jobs[j].t) :
              LET r == AfterResult(jobs[j], resp, APPLY_TEMPLATE)
              IN /\ rows' = r.table
                 /\ SetJob(j, [r.job EXCEPT !.accepted = @ \/ resp.ok])
        /\ UNCHANGED <<nextId, providerApps, client, handler, now, quota>>

\* update_template_with_provider, provider-call and persist phases, run
\* against the stubbed client.
update_call_stub ==
    \E j \in JobIds :
        /\ Running(j, "update", "provider")
        /\ \E resp \in StubResults(jobs[j].t) :
              LET r == AfterResult(jobs[j], resp, UPDATE_TEMPLATE)
              IN /\ rows' = r.table
                 /\ SetJob(j, [r.job EXCEPT !.accepted = @ \/ resp.ok])
        /\ UNCHANGED <<nextId, providerApps, client, handler, now, quota>>

\* The submit and update tasks run against the stubbed client, the clock
\* advancing.
NextStub ==
    \/ send_for_approval
    \/ perform_update
    \/ Tick
    \/ submit_lookup
    \/ submit_call_stub
    \/ update_lookup
    \/ update_call_stub

SpecStub == Init /\ [][NextStub]_vars

----------------------------------------------------------------------------
(* Claims C12 to C20 *)

\* The local rows already carry what the provider's list says: every record
\* of the list has a local row of its name whose stored hash is the record's.
AlreadySynced(table, remote) ==
    \A i \in 1..Len(remote) :
        LET o == FirstByElementName(table, remote[i].elementName)
        IN o # NoT /\ o.hash = tpl_hash(remote[i])

\* A sync job of the same app that already succeeded on the list job j
\* receives now.
SyncedBefore(j) ==
    \E k \in JobIds \ {j} :
        /\ jobs[k].kind = "sync" /\ jobs[k].state = "SUCCESS"
        /\ jobs[k].app_id = jobs[j].app_id
        /\ jobs[k].fetched = jobs'[j].fetched

\* C12: a sync run that succeeds on the list an earlier run of the same app
\* already synced, with the local rows still carrying that list, writes no
\* template row.
C12_SecondSyncWritesNothing ==
    [][\A j \in JobIds :
          (/\ jobs[j].kind = "sync"
           /\ jobs[j].pc = "provider"
           /\ jobs'[j].state = "SUCCESS"
           /\ SyncedBefore(j)
           /\ AlreadySynced(rows, jobs'[j].fetched))
             => jobs'[j].written = 0]_vars

\* The sync job j completes its provider-call and persist phases with
\* success in this step.
SyncSucceeds(j) ==
    /\ jobs[j].kind = "sync"
    /\ jobs[j].pc = "provider"
    /\ jobs'[j].state = "SUCCESS"

\* C13: after a successful sync, a local template matched by a remote record
\* with a different hash stores the record's provider template id, status,
\* category, old category, quality and language, and keeps its local-only
\* fields.
C13_SyncOverwritesProviderFields ==
    [][\A j \in JobIds :
          SyncSucceeds(j) =>
            \A i \in 1..Len(jobs'[j].fetched) :
                LET tpl == jobs'[j].fetched[i]
                    o == FirstByElementName(rows, tpl.elementName)
                IN (o # NoT /\ o.hash # tpl_hash(tpl)) =>
                     /\ o.id \in DOMAIN rows'
                     /\ rows'[o.id].provider_template_id = tpl.id
                     /\ rows'[o.id].status = tpl.status
                     /\ rows'[o.id].category = tpl.category
                     /\ rows'[o.id].oldCategory = tpl.oldCategory
                     /\ rows'[o.id].quality = tpl.quality
                     /\ rows'[o.id].languageCode = tpl.languageCode
                     /\ rows'[o.id].isDeleted = o.isDeleted
                     /\ rows'[o.id].errorMessageMeta = o.errorMessageMeta
                     /\ rows'[o.id].webhookMeta = o.webhookMeta]_vars

\* The sync job j received the provider's list and its writes raised: the
\* step staged its batch and did not end in SUCCESS.
SyncBatchFails(j) ==
    /\ jobs[j].kind = "sync"
    /\ jobs[j].pc = "provider"
    /\ jobs'[j].calls = jobs[j].calls + 1
    /\ jobs'[j].accepted
    /\ jobs'[j].state # "SUCCESS"

\* C14: a sync run whose batch of updates and creates fails on one write
\* leaves the template table as it was: none of the run's updates and none
\* of its creates is stored, and no primary key is used up.
C14_SyncBatchAllOrNothing ==
    [][\A j \in JobIds :
          SyncBatchFails(j) => /\ rows' = rows
                              /\ nextId' = nextId
                              /\ jobs'[j].written = 0]_vars

\* A sync run staged an update of the local draft and two creates of the
\* same new template, the second create raised, and the draft is unchanged.
C14_Witness ==
    \E j \in JobIds :
        /\ jobs[j].kind = "sync"
        /\ jobs[j].accepted
        /\ "exc" \in jobs[j].results
        /\ Len(jobs[j].fetched) = 3
        /\ rows[1].status = "draft"
        /\ DOMAIN rows = {1}

\* The remote record tpl, fetched for organisation org, has the identity
\* (org_id, provider app, elementName, languageCode) of the local template t.
RecordOf(tpl, org, t) ==
    /\ t.org = org
    /\ t.app = tpl.appId
    /\ t.elementName = tpl.elementName
    /\ t.languageCode = tpl.languageCode

\* C15: a successful sync changes a local template only when the fetched
\* list holds a record of that template's identity (organisation, app,
\* elementName, languageCode), and leaves no two templates of one identity.
C15_SyncMatchesByIdentity ==
    [][\A j \in JobIds :
          SyncSucceeds(j) =>
            /\ \A id \in DOMAIN rows :
                  (id \in DOMAIN rows' /\ rows'[id] # rows[id]) =>
                     \E i \in 1..Len(jobs'[j].fetched) :
                        RecordOf(jobs'[j].fetched[i], jobs[j].org_id, rows[id])
            /\ \A a, b \in DOMAIN rows' :
                  a # b => ~SameIdentity(rows'[a], rows'[b])]_vars

\* C16: every stored template's hash is generate_hash of the template's
\* current field values.
C16_StoredHashIsFingerprint ==
    \A id \in DOMAIN rows : rows[id].hash = generate_hash(rows[id])

\* The template instances of a state: the stored rows and the instances the
\* running tasks and the request handler have loaded.
Instances ==
    {rows[id] : id \in DOMAIN rows}
       \cup ({jobs[j].t : j \in JobIds} \ {NoT})
       \cup ({handler} \ {NoT})

\* a and b carry the same values in the provider-relevant fields.
AgreeOnRelevantFields(a, b) ==
    /\ a.app = b.app
    /\ a.category = b.category
    /\ a.elementName = b.elementName
    /\ a.provider_template_id = b.provider_template_id
    /\ a.languageCode = b.languageCode
    /\ a.oldCategory = b.oldCategory
    /\ a.quality = b.quality
    /\ a.status = b.status

C17_WitnessRelevant ==
    \E a, b \in Instances :
        /\ a.status # b.status
        /\ generate_hash(a) # generate_hash(b)

\* The error-audit key of a job's own action.
ActionKey(job) ==
    CASE job.kind = "submit" -> APPLY_TEMPLATE
      [] job.kind = "update" -> UPDATE_TEMPLATE
      [] OTHER -> DELETE_TEMPLATE

C19_TerminalFailureLeavesEntry ==
    [][\A j \in JobIds :
          (/\ jobs[j].kind \in {"submit", "update", "delete"}
           /\ jobs[j].pc = "provider"
           /\ jobs'[j].state = "FAILURE"
           /\ jobs[j].t.id \in DOMAIN rows)
             => /\ jobs[j].t.id \in DOMAIN rows'
                /\ ActionKey(jobs[j])
                      \in DOMAIN rows'[jobs[j].t.id].errorMessageMeta]_vars

\* C20: the step of an update job in which the provider accepts the update
\* leaves the stored template with status 'pending' and the job with
\* SUCCESS.
C20_AcceptedUpdateSetsPending ==
    [][\A j \in JobIds :
          (/\ jobs[j].kind = "update"
           /\ jobs[j].pc = "provider"
           /\ ~jobs[j].accepted
           /\ jobs'[j].accepted)
              => /\ jobs'[j].state = "SUCCESS"
                 /\ jobs[j].template_id \in DOMAIN rows'
                 /\ rows'[jobs[j].template_id].status = "pending"]_vars

----------------------------------------------------------------------------
(* Claims C21 to C30 *)

\* The review outcomes only the provider decides.
ProviderDecidedStatuses ==
    {"approved", "rejected", "paused", "disabled", "in_appeal"}

\* This step is the apply step of a webhook job or the persist step of a
\* sync job.
WebhookOrSyncStep ==
    \E j \in JobIds :
        /\ jobs[j].kind \in {"webhook", "sync"}
        /\ jobs[j].pc = "provider"
        /\ jobs'[j] # jobs[j]

\* C21: a stored template's status changes to approved, rejected, paused,
\* disabled or in_appeal (in any letter case) only in the apply step of a
\* webhook job or the persist step of a sync job.
C21_ProviderStatusOnlyFromProvider ==
    [][\A id \in DOMAIN rows' :
          (/\ Lower(rows'[id].status) \in ProviderDecidedStatuses
           /\ (id \in DOMAIN rows => rows[id].status # rows'[id].status))
             => WebhookOrSyncStep]_vars

\* The stored templates a webhook payload names by provider template id, and
\* by (elementName, languageCode).
MatchesById(payload) ==
    {i \in DOMAIN rows :
        /\ Truthy(Get(payload, "id"))
        /\ rows[i].provider_template_id = Get(payload, "id")}

MatchesByName(payload) ==
    {i \in DOMAIN rows :
        /\ Truthy(Get(payload, "elementName"))
        /\ Truthy(Get(payload, "languageCode"))
        /\ rows[i].elementName = Get(payload, "elementName")
        /\ rows[i].languageCode = Get(payload, "languageCode")}

\* C22: the lookup step of a webhook job loads the one template that has the
\* payload's provider template id; when no template has that id, the one
\* template with the payload's (elementName, languageCode); when neither
\* lookup finds a template the handler returns False, the job ends and no
\* row is changed.
C22_LocateByIdThenByName ==
    [][\A j \in JobIds :
          (/\ jobs[j].kind = "webhook"
           /\ jobs[j].pc = "queued"
           /\ jobs'[j] # jobs[j])
             => LET byId == MatchesById(jobs[j].event)
                    byName == MatchesByName(jobs[j].event)
                IN /\ Cardinality(byId) = 1
                        => /\ jobs'[j].pc = "provider"
                           /\ \A i \in byId : jobs'[j].t = rows[i]
                   /\ (byId = {} /\ Cardinality(byName) = 1)
                        => /\ jobs'[j].pc = "provider"
                           /\ \A i \in byName : jobs'[j].t = rows[i]
                   /\ (byId = {} /\ byName = {})
                        => /\ jobs'[j].applied = "False"
                           /\ jobs'[j].pc = "done"
                           /\ rows' = rows]_vars

\* A delivery whose id no template has was resolved by (elementName,
\* languageCode) to the tenant's second template.
C22_Witness ==
    \E j \in JobIds :
        /\ jobs[j].kind = "webhook"
        /\ jobs[j].pc = "provider"
        /\ Get(jobs[j].event, "id") = "unknown"
        /\ jobs[j].t.elementName = "promo"

\* The webhook job j applies an event of the given type in this step and
\* the handler returns True.
Applies(j, type) ==
    /\ jobs[j].kind = "webhook"
    /\ jobs[j].pc = "provider"
    /\ Get(jobs[j].event, "type") = type
    /\ jobs'[j].applied = "True"

\* C23: applying a category-update event with category {new, old} stores the
\* upper-cased new category in the template's category field, keeps the
\* upper-cased old category in the event's audit entry, and leaves status
\* and quality as loaded.
C23_CategoryUpdateNormalised ==
    [][\A j \in JobIds :
          (/\ Applies(j, "category-update")
           /\ Truthy(Get(GetOr(jobs[j].event, "category", <<>>), "new"))
           /\ Truthy(Get(GetOr(jobs[j].event, "category", <<>>), "old")))
             => LET id == jobs[j].t.id
                    c == jobs[j].event.category
                IN /\ id \in DOMAIN rows'
                   /\ rows'[id].category = Upper(c.new)
                   /\ "category-update" \in DOMAIN rows'[id].webhookMeta
                   /\ rows'[id].webhookMeta["category-update"].oldCategory
                         = Upper(c.old)
                   /\ rows'[id].status = jobs[j].t.status
                   /\ rows'[id].quality = jobs[j].t.quality]_vars

RecognisedTypes == {"status-update", "category-update", "quality-update", None}

\* C24: for an event whose type is not status-update, category-update,
\* quality-update or None, the handler's second step returns False and
\* writes nothing: every stored row, webhookMeta included, is as before.
C24_UnrecognisedTypeRejected ==
    [][\A j \in JobIds :
          (/\ jobs[j].kind = "webhook"
           /\ jobs[j].pc = "provider"
           /\ Get(jobs[j].event, "type") \notin RecognisedTypes
           /\ jobs'[j] # jobs[j])
             => /\ jobs'[j].applied = "False"
                /\ jobs'[j].state = "FAILURE"
                /\ rows' = rows]_vars

\* An event of type account-event for the template with provider template
\* id abc123 was located and rejected.
C24_Witness ==
    \E j \in JobIds :
        /\ jobs[j].kind = "webhook"
        /\ Get(jobs[j].event, "type") = "account-event"
        /\ jobs[j].pc = "done"
        /\ jobs[j].applied = "False"
        /\ \E id \in DOMAIN rows :
              rows[id].provider_template_id = Get(jobs[j].event, "id")

C25_WitnessOtherType ==
    \E id \in DOMAIN rows :
        {"status-update", "category-update"} \subseteq DOMAIN rows[id].webhookMeta

\* An audit entry without its timestamp.
WithoutTs(entry) == [k \in (DOMAIN entry) \ {"ts"} |-> entry[k]]

\* The webhook job j is about to apply a status-update event that another
\* job already applied, to the template as that application left it: the
\* instance j loaded is the stored row and the row's status-update entry is
\* the one of this event.
ReplayOfApplied(j) ==
    /\ jobs[j].kind = "webhook"
    /\ jobs[j].pc = "provider"
    /\ Get(jobs[j].event, "type") = "status-update"
    /\ \E k \in JobIds \ {j} :
          jobs[k].event = jobs[j].event /\ jobs[k].applied = "True"
    /\ jobs[j].t.id \in DOMAIN rows
    /\ rows[jobs[j].t.id] = jobs[j].t
    /\ "status-update" \in DOMAIN jobs[j].t.webhookMeta
    /\ WithoutTs(jobs[j].t.webhookMeta["status-update"])
          = ProcessEvent(jobs[j].event).meta

\* C26: applying a status-update event a second time to the template the
\* first application left leaves every field of the stored template as it
\* was (status, isDeleted and the one status-update entry included), except
\* the timestamp of that entry.
C26_StatusUpdateReplayIdempotent ==
    [][\A j \in JobIds :
          (ReplayOfApplied(j) /\ jobs'[j] # jobs[j])
             => LET id == jobs[j].t.id
                IN /\ jobs'[j].applied = "True"
                   /\ id \in DOMAIN rows'
                   /\ rows'[id] = [rows[id] EXCEPT
                                      !.webhookMeta["status-update"].ts = now]]_vars

\* The same status-update event with status 'deleted' was applied by two
\* jobs, and the template is kept as a row marked 'Deleted'.
C26_Witness ==
    \E j, k \in JobIds :
        /\ j # k
        /\ jobs[j].event = jobs[k].event
        /\ Get(jobs[j].event, "type") = "status-update"
        /\ Get(jobs[j].event, "status") = "deleted"
        /\ jobs[j].applied = "True"
        /\ jobs[k].applied = "True"
        /\ \E id \in DOMAIN rows : rows[id].isDeleted = "Deleted"

\* ---- provider client ----

FailureResponses == {"http_4xx", "http_5xx", "network"}

\* C27: when the provider answers a template method's request with HTTP 4xx
\* or 5xx, or the request fails at network level, submit_template,
\* update_template, delete_template and get_templates return a result with
\* ok = false and do not raise; the request layer reports the response's
\* status code, and 0 for the network failure.
C27_ProviderFailureIsAResult ==
    (client.pc = "done" /\ client.http \in FailureResponses) =>
        /\ ~client.raised
        /\ client.ok = FALSE
        /\ client.response # None
        /\ (client.http = "network") = (client.status_code = 0)

\* get_templates has returned after its request failed at network level.
C27_Witness ==
    /\ client.pc = "done"
    /\ client.method = "get_templates"
    /\ client.http = "network"
    /\ client.status_code = 0
    /\ client.ok = FALSE

\* C28: upload_media makes at most 3 upload attempts; the attempt that yields
\* a handle is the last one; and after 3 failed attempts submit_template has
\* returned a failure result without sending the template to the provider.
C28_UploadAttemptsBounded ==
    [][ /\ client'.uploads <= UploadAttempts
        /\ (client.uploads > 0 /\ client.media_id # None) =>
               client'.uploads = client.uploads
        /\ (client'.uploads = UploadAttempts /\ client'.media_id = None) =>
               /\ client'.pc = "done"
               /\ ~client'.raised
               /\ client'.ok = FALSE
               /\ client'.requests = 0 ]_vars

\* Three upload attempts failed and submit_template returned.
C28_Witness ==
    /\ client.pc = "done"
    /\ client.uploads = UploadAttempts
    /\ client.media_id = None
    /\ client.ok = FALSE
    /\ client.requests = 0

\* The media reference is no URL at all.
Malformed(ref) == ref.length > 0 /\ ~ref.handle_pattern /\ ~ref.valid_url

\* The media reference is a URL whose MIME type is not one allowed for the
\* declared template type.
MimeNotAllowed(ref, template_type) ==
    /\ ref.valid_url
    /\ ref.mime # None
    /\ UpperType(template_type) \in DOMAIN TEMPLATE_MIME_GROUPS
    /\ ref.mime \notin TEMPLATE_MIME_GROUPS[UpperType(template_type)]

\* C29: when the media URL is malformed, or its MIME type is not allowed for
\* the declared template type, submit_template uploads no media, does not send
\* the template to the provider, and returns a failure result.
C29_InvalidMediaNotUploaded ==
    (/\ client.method = "submit_template"
     /\ \/ Malformed(client.media)
        \/ MimeNotAllowed(client.media, client.file_type)) =>
        /\ client.uploads = 0
        /\ client.requests = 0
        /\ (client.pc = "done" => client.ok = FALSE)

\* The media reference has the handle pattern and the length of a handle.
IsHandle(ref) == ref.handle_pattern /\ ref.length >= HandleMinLength

\* The media reference is a plain http(s) URL.
IsPlainUrl(ref) == ref.valid_url /\ ~ref.handle_pattern

\* C30: for a media reference with the handle pattern and length at least 50
\* submit_template downloads and uploads nothing and takes the reference
\* itself as media id; for a plain https URL the template is sent to the
\* provider only after the media was uploaded.
C30_HandleReusedUrlUploaded ==
    client.method = "submit_template" =>
        /\ IsHandle(client.media) =>
              /\ client.downloads = 0
              /\ client.uploads = 0
              /\ (client.pc \in {"request", "done"} =>
                     client.media_id = client.media.name)
        /\ (IsPlainUrl(client.media) /\ client.requests > 0) =>
              /\ client.uploads >= 1
              /\ client.media_id = "handle_1"

\* A template with a handle was sent without an upload.
C30_Witness ==
    /\ client.method = "submit_template"
    /\ IsHandle(client.media)
    /\ client.requests = 1
    /\ client.uploads = 0
    /\ client.media_id = client.media.name

\* A template with a plain URL of handle length was sent after its upload.
C30_WitnessUrl ==
    /\ client.method = "submit_template"
    /\ IsPlainUrl(client.media)
    /\ client.media.length >= HandleMinLength
    /\ client.requests = 1
    /\ client.uploads >= 1

----------------------------------------------------------------------------
(* Claims C31 to C40 *)

\* C31: once a job instance has reported the state FAILURE, it invokes the
\* provider no more and reports neither PROGRESS nor SUCCESS afterwards.
C31_ReportedFailureIsFinal ==
    [][\A j \in JobIds :
          (jobs[j].kind \in ProviderJobKinds /\ jobs[j].failure_reported)
             => /\ jobs'[j].calls = jobs[j].calls
                /\ jobs'[j].state \notin {"PROGRESS", "SUCCESS"}]_vars

\* C32: once the provider has accepted the template of a submit job, that job
\* sends no further submit request.
C32_AcceptedSubmitNotResubmitted ==
    [][\A j \in JobIds :
          (jobs[j].kind = "submit" /\ jobs[j].accepted)
             => jobs'[j].calls = jobs[j].calls]_vars

\* C33: a run of the webhook handler that returns false leaves the table as
\* it was; in particular no soft-delete marker is stored when the final
\* write of a 'deleted' status event fails.
C33_FalseApplyChangesNothing ==
    [][\A j \in JobIds :
          (/\ jobs[j].kind = "webhook"
           /\ jobs[j].applied = None
           /\ jobs'[j].applied = "False")
             => rows' = rows]_vars

\* C34: every stored template's status is one of the nine values of
\* STATUS_CHOICES: never empty, never a provider string in capitals.
C34_StatusIsAnEnumValue ==
    \A id \in DOMAIN rows : rows[id].status \in STATUS_CHOICES

\* C35: a template that was removed from the table stays absent: no later
\* save by the request handler or by a task that loaded it earlier stores a
\* row under its primary key again.
C35_DeletedTemplateStaysAbsent ==
    [][\A id \in 1..(nextId - 1) :
          id \notin DOMAIN rows => id \notin DOMAIN rows']_vars

\* The fields of a template that webhooks write.
WebhookWrittenFields == {"status", "category", "quality", "isDeleted", "webhookMeta"}

\* C36: the write of a submit job's persist phase changes only the
\* error-audit map and the hash of the stored template: what a webhook has
\* stored in status, category, quality, isDeleted or webhookMeta since the
\* job's lookup is still stored after the job's write.
C36_ErrorAuditWriteKeepsWebhookValues ==
    [][\A j \in JobIds :
          (/\ jobs[j].kind = "submit"
           /\ jobs[j].pc = "provider"
           /\ jobs'[j].calls = jobs[j].calls + 1
           /\ jobs[j].t.id \in DOMAIN rows
           /\ jobs[j].t.id \in DOMAIN rows')
             => \A f \in WebhookWrittenFields :
                   rows'[jobs[j].t.id][f] = rows[jobs[j].t.id][f]]_vars

\* The primary field an event type governs.
PrimaryField(type) ==
    CASE type = "status-update" -> "status"
      [] type = "category-update" -> "category"
      [] type = "quality-update" -> "quality"
      [] OTHER -> None

\* The stored template holds what the handler wrote for the event: the
\* primary field of the event's type and the webhookMeta entry of that type.
HoldsUpdateOf(t, event) ==
    LET type == Get(event, "type")
    IN /\ type \in DOMAIN t.webhookMeta
       /\ PrimaryField(type) # None =>
              t[PrimaryField(type)] = ProcessEvent(event).main_field_value

\* C37: when two webhook tasks have applied events of different types to a
\* template, the template holds both primary-field updates and both
\* webhookMeta entries, however the two tasks were interleaved.
C37_ConcurrentEventsBothKept ==
    \A j, k \in JobIds :
        (/\ j # k
         /\ jobs[j].kind = "webhook" /\ jobs[k].kind = "webhook"
         /\ jobs[j].applied = "True" /\ jobs[k].applied = "True"
         /\ Get(jobs[j].event, "type") # Get(jobs[k].event, "type"))
            => \A id \in DOMAIN rows :
                  /\ HoldsUpdateOf(rows[id], jobs[j].event)
                  /\ HoldsUpdateOf(rows[id], jobs[k].event)

\* The fields generate_hash digests, by the key of the remote record each
\* is copied from.
ProviderOwnedKeys == DOMAIN generate_hash(NewTemplate(1, "otp_1", None, "draft"))

\* The local template equals the remote record on every provider-owned field.
EqualOnProviderFields(t, tpl) ==
    \A k \in ProviderOwnedKeys : generate_hash(t)[k] = TplGet(tpl, k)

\* C38: a template that a sync matched to a remote record, that was saved
\* locally afterwards and that equals the record on all provider-owned
\* fields, carries the hash sync computes for that record, so that the next
\* sync of the unchanged record finds a hash match.
C38_SavedHashMatchesRemoteHash ==
    \A j \in JobIds :
        (jobs[j].kind = "sync" /\ jobs[j].state = "SUCCESS") =>
            \A i \in 1..Len(jobs[j].fetched) :
                LET tpl == jobs[j].fetched[i]
                    t == FirstByElementName(rows, tpl.elementName)
                IN (/\ t # NoT
                    /\ t.hash = generate_hash(t)
                    /\ EqualOnProviderFields(t, tpl))
                       => t.hash = tpl_hash(tpl)

\* C39: under fair scheduling a template marked isDeleted = 'Processing' is
\* eventually removed, or stored again with isDeleted = 'none' and so
\* visible to its tenant: the marker does not stay for ever, whichever way
\* the delete job ends.
C39_ProcessingIsTransient ==
    \A id \in TemplateIds :
        (id \in DOMAIN rows /\ rows[id].isDeleted = "Processing")
            ~> (id \notin DOMAIN rows \/ rows[id].isDeleted = "none")

\* The element names of a fetched template list.
NamesOf(remote) == {remote[i].elementName : i \in 1..Len(remote)}

\* C40: the step of a sync job that fetches the provider's list and writes
\* removes no row, and leaves every row whose elementName does not occur in
\* the fetched list exactly as it was stored.
C40_SyncLeavesUnlistedTemplates ==
    [][\A j \in JobIds :
          (/\ jobs[j].kind = "sync"
           /\ jobs[j].pc = "provider"
           /\ jobs'[j].calls = jobs[j].calls + 1)
             => \A id \in DOMAIN rows :
                   /\ id \in DOMAIN rows'
                   /\ rows[id].elementName \notin NamesOf(jobs'[j].fetched)
                         => rows'[id] = rows[id]]_vars

\* A sync has written the records of a list that does not name the local
\* template otp_1, and that template is still stored beside the new one.
C40_Witness ==
    \E j \in JobIds :
        /\ jobs[j].kind = "sync"
        /\ jobs[j].state = "SUCCESS"
        /\ jobs[j].written > 0
        /\ "otp_1" \notin NamesOf(jobs[j].fetched)
        /\ \E id \in DOMAIN rows : rows[id].elementName = "otp_1"
        /\ \E id \in DOMAIN rows : rows[id].elementName \in NamesOf(jobs[j].fetched)


====
